---- MODULE Spec2Model ----
(***************************************************************************)
(* Research orchestration engine of symchat: the query planner, the result *)
(* cache and performDeepResearch (batched executor, session state machine, *)
(* deduplication, ranking, report).                                        *)
(*                                                                         *)
(* Strings are sequences of symbols.  A symbol is a TLA+ string that is    *)
(* either one whitespace character (" " or "\t") or a chunk without        *)
(* whitespace (a word, a URL part).  Optional fields (results?, error?,    *)
(* finalReport?) are sequences of length 0 (absent) or 1 (present).        *)
(*                                                                         *)
(* Spec and FairSpec follow one run of performDeepResearch; CacheSpec      *)
(* follows set, get and clearExpired called on the cache directly, up to   *)
(* and beyond its capacity; SharedSpec follows a run together with a       *)
(* second run that uses the same cache; PlanSpec applies                   *)
(* generateResearchQueries to topics, and RankSpec deduplicateResults,     *)
(* rankResults and the choice of the report's results to lists of results. *)
(***************************************************************************)
EXTENDS Integers, Sequences, FiniteSets, TLC

VARIABLES
    now,        \* Date.now(), milliseconds
    cache,      \* SearchCache.cache: the Map's entries in insertion order
    mainQuery,  \* the topic performDeepResearch is called with
    pc,         \* position of performDeepResearch
    steps,      \* steps[0..n-1]: the ResearchStep objects
    progress,   \* the progress object without its steps property
    i,          \* loop variable of the batch loop
    k,          \* batchIndex reached by batch.map
    call,       \* call[s]: state of the promise webSearch returned for step s
    outcome,    \* outcome[s]: what settled step s (what the provider or the cache delivered)
    emitted,    \* the values handed to onProgress, oldest first
    invoked,    \* which of deduplicateResults, rankResults, formatResearchReport ran
    ticks,      \* number of clock advances so far
    startedAt,  \* Date.now() when performDeepResearch was called
    other,      \* another run that shares searchCache: its provider calls in flight
                \* and what its last cache hit returned
    op,         \* the last call made on searchCache directly, with what it returned
    nops,       \* number of such calls so far
    written,    \* written[words]: the results and time of the last set for a query
                \* of these words, unless set has evicted its entry since
    unswept,    \* the cache as the same calls leave it when clearExpired never runs
    fn          \* a call of generateResearchQueries, deduplicateResults or rankResults
                \* made on its own: the function's name, its arguments, what it returned

\* The variables of the run of performDeepResearch under observation
run == <<mainQuery, pc, steps, progress, i, k, call, outcome, emitted, invoked,
         startedAt>>

\* The variables that only calls from outside that run change
aside == <<other, op, nops, written, unswept, fn>>

vars == <<now, cache, ticks, run, aside>>

(***************************************************************************)
(* Bounds of the model                                                     *)
(***************************************************************************)
MaxTicks == 1

\* One clock advance: the cache duration
TickMs == 10 * 60 * 1000

(***************************************************************************)
(* Strings                                                                 *)
(***************************************************************************)
IsWs(c) == c \in {" ", "\t"}

\* String.prototype.toLowerCase on one symbol
LowerSym(c) ==
    CASE c = "Who" -> "who"
      [] c = "Ada" -> "ada"
      [] c = "Go" -> "go"
      [] c = "Rust" -> "rust"
      [] c = "Latest" -> "latest"
      [] c = "VS" -> "vs"
      [] c = "CEO" -> "ceo"
      [] c = "HTTPS://X.COM/A" -> "https://x.com/a"
      [] c = "HTTPS://" -> "https://"
      [] c = "X.COM" -> "x.com"
      [] c = "A" -> "a"
      [] OTHER -> c

toLowerCase(s) == [j \in 1..Len(s) |-> LowerSym(s[j])]

RECURSIVE trimStart(_)
trimStart(s) == IF s # <<>> /\ IsWs(Head(s)) THEN trimStart(Tail(s)) ELSE s

RECURSIVE trimEnd(_)
trimEnd(s) ==
    IF s # <<>> /\ IsWs(s[Len(s)]) THEN trimEnd(SubSeq(s, 1, Len(s) - 1)) ELSE s

trim(s) == trimEnd(trimStart(s))

\* s.replace(/\s+/g, " ")
RECURSIVE collapseWs(_)
collapseWs(s) ==
    IF s = <<>> THEN <<>>
    ELSE IF IsWs(Head(s)) THEN <<" ">> \o collapseWs(trimStart(s))
    ELSE <<Head(s)>> \o collapseWs(Tail(s))

\* s.includes(sub)
includes(s, sub) ==
    \E j \in 0..(Len(s) - Len(sub)) : SubSeq(s, j + 1, j + Len(sub)) = sub

\* /\b(w1|w2|...)\b/i.test(s) for alternatives given as symbol sequences
testWords(s, alternatives) ==
    \E a \in alternatives : includes(toLowerCase(s), a)

\* s.split(/\s+/): the pieces between the runs of whitespace, each a string
RECURSIVE splitFrom(_, _)
splitFrom(s, cur) ==
    IF s = <<>> THEN <<cur>>
    ELSE IF IsWs(Head(s)) THEN <<cur>> \o splitFrom(trimStart(s), <<>>)
    ELSE splitFrom(Tail(s), Append(cur, Head(s)))

splitWs(s) == splitFrom(s, <<>>)

\* s.length: the number of characters of a string
RECURSIVE length(_)
length(s) == IF s = <<>> THEN 0 ELSE Len(Head(s)) + length(Tail(s))

\* The words of a template literal, separated by single spaces, after a leading space
RECURSIVE Suffix(_)
Suffix(ws) == IF ws = <<>> THEN <<>> ELSE <<" ", Head(ws)>> \o Suffix(Tail(ws))

(***************************************************************************)
(* Query planner                                                           *)
(***************************************************************************)
\* new Date().getFullYear(), as it appears in a template literal
Year == "<year>"

personWords == {<<"person">>, <<"people">>, <<"ceo">>, <<"founder">>, <<"author">>,
                <<"artist">>, <<"scientist">>}
productWords == {<<"review">>, <<"product">>, <<"service">>, <<"app">>, <<"software">>,
                 <<"tool">>, <<"device">>}
comparisonWords == {<<"vs">>, <<"versus">>, <<"compare">>,
                    <<"difference", " ", "between">>, <<"better", " ", "than">>}

isPersonQuery(q) ==
    includes(toLowerCase(q), <<"who", " ", "is">>) \/ testWords(q, personWords)
isProductQuery(q) == testWords(q, productWords)
isComparison(q) == testWords(q, comparisonWords)
isHowTo(q) ==
    \/ includes(toLowerCase(q), <<"how", " ", "to">>)
    \/ includes(toLowerCase(q), <<"how", " ", "do">>)

personTemplates ==
    << <<"biography", "and", "background">>, <<"achievements", "and", "contributions">>,
       <<"latest", "news">> >>
productTemplates ==
    << <<"review", "and", "ratings">>, <<"features", "and", "specifications">>,
       <<"pros", "and", "cons">>, <<"alternatives", "and", "competitors">> >>
comparisonTemplates ==
    << <<"detailed", "comparison">>, <<"which", "is", "better">>,
       <<"user", "experiences">> >>
howToTemplates ==
    << <<"step", "by", "step", "guide">>, <<"tutorial">>, <<"best", "practices">> >>
generalTemplates ==
    << <<"comprehensive", "overview">>, <<"latest", "developments", Year>>,
       <<"expert", "analysis", "and", "insights">>, <<"statistics", "and", "data">>,
       <<"real", "world", "examples", "and", "use", "cases">> >>

\* Mutant: the product test comes before the person test
templatesForProductFirst(q) ==
    IF isProductQuery(q) THEN productTemplates
    ELSE IF isPersonQuery(q) THEN personTemplates
    ELSE IF isComparison(q) THEN comparisonTemplates
    ELSE IF isHowTo(q) THEN howToTemplates
    ELSE generalTemplates

templatesFor(q) ==
    IF isPersonQuery(q) THEN personTemplates
    ELSE IF isProductQuery(q) THEN productTemplates
    ELSE IF isComparison(q) THEN comparisonTemplates
    ELSE IF isHowTo(q) THEN howToTemplates
    ELSE generalTemplates

\* Mutant: the recency words are looked for in the topic as it is spelled
isTimeSensitiveAsSpelled(q) ==
    \E w \in {"latest", "recent", "current"} : includes(q, <<w>>)

isTimeSensitive(q) ==
    \E w \in {"latest", "recent", "current"} : includes(toLowerCase(q), <<w>>)

generateResearchQueries(q) ==
    LET t == templatesFor(q)
        queries == <<q>> \o [j \in 1..Len(t) |-> q \o Suffix(t[j])]
                       \o (IF isTimeSensitive(q) THEN <<q \o <<" ", Year>>>> ELSE <<>>)
    IN  SubSeq(queries, 1, IF Len(queries) < 8 THEN Len(queries) ELSE 8)

(***************************************************************************)
(* Inputs of the model                                                     *)
(***************************************************************************)
\* The topics of the runs explored: a person topic and a comparison with stray
\* whitespace and capitals (4 queries each, two batches)
Topics ==
    { <<"Who", " ", "is", " ", "Ada">>,
      <<"Go", " ", "\t", "VS", " ", "Rust">> }

\* generateResearchQueries on the topics, tabulated
PlanOf == [t \in Topics |-> generateResearchQueries(t)]

Queries == UNION {{PlanOf[t][j] : j \in 1..Len(PlanOf[t])} : t \in Topics}

\* The topic of another run that shares the cache: the second topic spelled otherwise
OtherTopic == <<"go", " ", "vs", " ", "rust">>

OtherPlan == generateResearchQueries(OtherTopic)

\* The sub-query the other run is followed on: its last, which a run on the second
\* topic looks up in its second batch, after its first await
OtherQueries == {OtherPlan[Len(OtherPlan)]}

(***************************************************************************)
(* Result cache (search-cache.ts)                                          *)
(***************************************************************************)
CACHE_DURATION == 10 * 60 * 1000
MAX_CACHE_SIZE == 50

\* Mutant: the key is the first word of the query
normalizeQueryFirstWord(query) ==
    LET key == collapseWs(trim(toLowerCase(query)))
    IN  SubSeq(key, 1, IF key = <<>> THEN 0 ELSE 1)

\* Mutant: the key keeps the capitals of the query
normalizeQueryKeepCase(query) == collapseWs(trim(query))

normalizeQuery(query) == collapseWs(trim(toLowerCase(query)))

\* normalizeQuery on the queries of the model, tabulated
KeyOf == [q \in Queries |-> normalizeQuery(q)]

Key(query) == IF query \in Queries THEN KeyOf[query] ELSE normalizeQuery(query)

\* Mutant: an entry is still valid at the end of its tenth minute
isValidInclusive(entry, t) == t - entry.timestamp <= CACHE_DURATION

\* Mutant: the comparison of isValid reversed
isValidReversed(entry, t) == t - entry.timestamp > CACHE_DURATION

isValid(entry, t) == t - entry.timestamp < CACHE_DURATION

\* Map.prototype.get: the position of the key's entry, 0 when there is none
Lookup(c, key) ==
    IF \E j \in 1..Len(c) : c[j].query = key
    THEN CHOOSE j \in 1..Len(c) : c[j].query = key
    ELSE 0

\* Map.prototype.delete
Delete(c, key) ==
    LET j == Lookup(c, key) IN
    IF j = 0 THEN c ELSE SubSeq(c, 1, j - 1) \o SubSeq(c, j + 1, Len(c))

\* Map.prototype.set: a present key keeps its place in the iteration order
Put(c, entry) ==
    LET j == Lookup(c, entry.query) IN
    IF j = 0 THEN Append(c, entry) ELSE [c EXCEPT ![j] = entry]

\* Mutant: a hit makes the entry the newest, as a least-recently-used cache would
CacheGetRefreshing(c, t, query) ==
    LET key == Key(query)
        j == Lookup(c, key)
    IN  IF j = 0 THEN [ret |-> <<>>, cache |-> c]
        ELSE IF ~isValid(c[j], t) THEN [ret |-> <<>>, cache |-> Delete(c, key)]
        ELSE [ret |-> <<c[j].results>>,
              cache |-> Append(Delete(c, key), [c[j] EXCEPT !.timestamp = t])]

\* SearchCache.get: the value returned (absent for null) and the cache it leaves
CacheGet(c, t, query) ==
    LET key == Key(query)
        j == Lookup(c, key)
    IN  IF j = 0 THEN [ret |-> <<>>, cache |-> c]
        ELSE IF ~isValid(c[j], t) THEN [ret |-> <<>>, cache |-> Delete(c, key)]
        ELSE [ret |-> <<c[j].results>>, cache |-> c]

\* SearchCache.set
CacheSet(c, t, query, results) ==
    LET key == Key(query)
        \* firstKey is the first key in insertion order; an empty string is falsy
        room == IF Len(c) >= MAX_CACHE_SIZE /\ c[1].query # <<>>
                THEN Delete(c, c[1].query) ELSE c
    IN  Put(room, [query |-> key, results |-> results, timestamp |-> t])

\* SearchCache.clearExpired
RECURSIVE SweepFrom(_, _)
SweepFrom(c, t) ==
    IF c = <<>> THEN <<>>
    ELSE IF t - Head(c).timestamp >= CACHE_DURATION THEN SweepFrom(Tail(c), t)
    ELSE <<Head(c)>> \o SweepFrom(Tail(c), t)

clearExpired(c, t) == SweepFrom(c, t)

(***************************************************************************)
(* Search provider (web-search.ts): the answers it may give                *)
(***************************************************************************)
LongSnippet ==
    <<"aaaaaaaaaaaaaaaaaaaaaaaaaaaaaaaaaaaaaaaaaaaaaaaaaaaaaaaaaaaaaaaaaaaaaaaaaaaaaaaaaaaaaaaaaaaaaaaaaaaaa">>

Found ==
    << [title |-> <<"Notes">>, url |-> <<"https://x.com/a", "?", "ref=1">>,
        snippet |-> <<"notes">>],
       [title |-> <<"Ada", " ", "Lovelace">>, url |-> <<"HTTPS://X.COM/A", "#", "section">>,
        snippet |-> <<>>],
       [title |-> <<"Ada">>, url |-> <<"https://en.", "wikipedia.org", "/wiki/ada">>,
        snippet |-> LongSnippet] >>

\* A SearchResponse for query q: no results, or some
Responses(q) == {[query |-> q, results |-> <<>>], [query |-> q, results |-> Found]}

\* The values a provider call may reject with: Error objects, by their message
Thrown == {[message |-> ""], [message |-> "Failed to fetch"]}

\* The caches an earlier run on the topic can have left at time 0: none, or the
\* answers to its queries 0 and 3 (some results) and 1 (no results)
EarlierCaches(topic) ==
    LET q == PlanOf[topic]
        entry(j, rs) == [query |-> Key(q[j]),
                         results |-> [query |-> q[j], results |-> rs],
                         timestamp |-> 0]
    IN  { <<>>, <<entry(1, Found), entry(2, <<>>), entry(4, Found)>> }

(***************************************************************************)
(* Deduplication, ranking, report                                          *)
(***************************************************************************)
\* s.split(sep)[0]
RECURSIVE before(_, _)
before(s, sep) ==
    IF s = <<>> \/ Head(s) = sep THEN <<>> ELSE <<Head(s)>> \o before(Tail(s), sep)

\* Mutant: only the query string is cut off, the fragment stays
normalizedUrlKeepFragment(url) == toLowerCase(before(url, "?"))

normalizedUrl(url) == toLowerCase(before(before(url, "?"), "#"))

\* normalizedUrl on the URLs the provider of the model returns, tabulated
UrlKeyOf == [u \in {Found[j].url : j \in 1..Len(Found)} |-> normalizedUrl(u)]

UrlKey(url) == IF url \in DOMAIN UrlKeyOf THEN UrlKeyOf[url] ELSE normalizedUrl(url)

RECURSIVE dedupeFrom(_, _)
dedupeFrom(rs, seen) ==
    IF rs = <<>> THEN <<>>
    ELSE IF UrlKey(Head(rs).url) \in seen THEN dedupeFrom(Tail(rs), seen)
    ELSE <<Head(rs)>> \o dedupeFrom(Tail(rs), seen \cup {UrlKey(Head(rs).url)})

deduplicateResults(allResults) == dedupeFrom(allResults, {})

trustedDomains == {"wikipedia.org", "github.com", ".edu", ".gov", "stackoverflow.com"}

RECURSIVE termScore(_, _, _)
termScore(terms, title, snippet) ==
    IF terms = <<>> THEN 0
    ELSE (IF length(Head(terms)) < 3 THEN 0
          ELSE (IF includes(title, Head(terms)) THEN 3 ELSE 0)
               + (IF includes(snippet, Head(terms)) THEN 1 ELSE 0))
         + termScore(Tail(terms), title, snippet)

relevanceScore(result, query) ==
    termScore(splitWs(toLowerCase(query)), toLowerCase(result.title),
              toLowerCase(result.snippet))
    + (IF length(result.snippet) > 100 THEN 1 ELSE 0)
    + (IF \E d \in trustedDomains : includes(result.url, <<d>>) THEN 2 ELSE 0)

\* relevanceScore on the results and topics of the model, tabulated
ScoreOf ==
    [r \in {Found[j] : j \in 1..Len(Found)}, t \in Topics |-> relevanceScore(r, t)]

Score(result, query) ==
    IF <<result, query>> \in DOMAIN ScoreOf THEN ScoreOf[result, query]
    ELSE relevanceScore(result, query)

\* Mutant: a sort that puts a result before the earlier results of the same score
RECURSIVE insertSortedBeforeTies(_, _)
insertSortedBeforeTies(sorted, r) ==
    IF sorted = <<>> THEN <<r>>
    ELSE IF Head(sorted).relevanceScore > r.relevanceScore
         THEN <<Head(sorted)>> \o insertSortedBeforeTies(Tail(sorted), r)
         ELSE <<r>> \o sorted

\* Array.prototype.sort with (a, b) => b.relevanceScore - a.relevanceScore: stable
RECURSIVE insertSorted(_, _)
insertSorted(sorted, r) ==
    IF sorted = <<>> THEN <<r>>
    ELSE IF Head(sorted).relevanceScore >= r.relevanceScore
         THEN <<Head(sorted)>> \o insertSorted(Tail(sorted), r)
         ELSE <<r>> \o sorted

RECURSIVE sortByScore(_)
sortByScore(rs) ==
    IF rs = <<>> THEN <<>>
    ELSE insertSorted(sortByScore(SubSeq(rs, 1, Len(rs) - 1)), rs[Len(rs)])

rankResults(results, query) ==
    sortByScore([j \in 1..Len(results) |->
        [title |-> results[j].title, url |-> results[j].url,
         snippet |-> results[j].snippet,
         relevanceScore |-> Score(results[j], query)]])

slice(s, n) == SubSeq(s, 1, IF Len(s) < n THEN Len(s) ELSE n)

(***************************************************************************)
(* performDeepResearch                                                     *)
(***************************************************************************)
\* Mutant: batches of two
batchSizeTwo == 3 - 1

batchSize == 3

FailedReport ==
    [text |-> "Deep research failed: No search results could be gathered.",
     angles |-> 0, totalSources |-> 0, findings |-> <<>>, breakdown |-> <<>>,
     sources |-> <<>>]

N == progress.totalSteps
Settled == {"completed", "failed"}

\* steps.slice(i, i + batchSize), as the indices of its steps
Batch(from) == {s \in DOMAIN steps : from <= s /\ s < from + batchSize}

\* Mutant: the filter forgets the status and keeps every step that has results
RECURSIVE successfulFromAnyStatus(_)
successfulFromAnyStatus(s) ==
    IF s >= N THEN <<>>
    ELSE (IF steps[s].results # <<>> THEN <<steps[s]>> ELSE <<>>)
         \o successfulFromAnyStatus(s + 1)

\* Mutant: one failed step empties the list, as a rejected Promise.all would
RECURSIVE successfulFromUnlessFailed(_)
successfulFromUnlessFailed(s) ==
    IF s >= N \/ \E f \in DOMAIN steps : steps[f].status = "failed" THEN <<>>
    ELSE (IF steps[s].status = "completed" /\ steps[s].results # <<>>
          THEN <<steps[s]>> ELSE <<>>) \o successfulFromUnlessFailed(s + 1)

\* steps.filter(s => s.status === "completed" && s.results), in order
RECURSIVE successfulFrom(_)
successfulFrom(s) ==
    IF s >= N THEN <<>>
    ELSE (IF steps[s].status = "completed" /\ steps[s].results # <<>>
          THEN <<steps[s]>> ELSE <<>>) \o successfulFrom(s + 1)

successfulSteps == successfulFrom(0)

RECURSIVE flatten(_)
flatten(ss) ==
    IF ss = <<>> THEN <<>> ELSE Head(ss).results[1].results \o flatten(Tail(ss))

\* Mutant: the summary counts the results kept in place of the results found
formatResearchReportCountsKept(query, topResults) ==
    LET ok == successfulSteps IN
    IF ok = <<>>
    THEN [text |-> "No research data could be gathered.", angles |-> 0,
          totalSources |-> 0, findings |-> <<>>, breakdown |-> <<>>, sources |-> <<>>]
    ELSE [text |-> "Deep Research Report",
          angles |-> Len(ok),
          totalSources |-> Len(topResults),
          findings |-> topResults,
          breakdown |-> [j \in 1..Len(ok) |->
                            [query |-> ok[j].query,
                             resultCount |-> Len(ok[j].results[1].results)]],
          sources |-> [j \in 1..Len(topResults) |-> topResults[j].url]]

formatResearchReport(query, topResults) ==
    LET ok == successfulSteps IN
    IF ok = <<>>
    THEN [text |-> "No research data could be gathered.", angles |-> 0,
          totalSources |-> 0, findings |-> <<>>, breakdown |-> <<>>, sources |-> <<>>]
    ELSE [text |-> "Deep Research Report",
          angles |-> Len(ok),
          totalSources |-> Len(flatten(ok)),
          findings |-> topResults,
          breakdown |-> [j \in 1..Len(ok) |->
                            [query |-> ok[j].query,
                             resultCount |-> Len(ok[j].results[1].results)]],
          sources |-> [j \in 1..Len(topResults) |-> topResults[j].url]]

\* { ...progress }: the own properties of progress copied by value; the copy's steps
\* property is the steps array itself
Snapshot(p) == p

\* Mutant: an empty result set counts as a completed step
StepAfterLenient(step, ev) ==
    IF ev.kind \in {"hit", "resolved"}
    THEN [step EXCEPT !.results = <<ev.resp>>, !.status = "completed"]
    ELSE [step EXCEPT !.status = "failed",
                      !.error = <<IF ev.message = "" THEN "Search failed"
                                  ELSE ev.message>>]

\* The step after the try/catch of the batch callback. ev.kind is "hit" (the cache
\* returned ev.resp), "resolved" (the race resolved with ev.resp) or "rejected" (the
\* race rejected with an error whose message is ev.message)
StepAfter(step, ev) ==
    IF ev.kind \in {"hit", "resolved"}
    THEN IF Len(ev.resp.results) = 0
         THEN [step EXCEPT !.results = <<ev.resp>>, !.status = "failed",
                           !.error = <<"No results found">>]
         ELSE [step EXCEPT !.results = <<ev.resp>>, !.status = "completed"]
    ELSE [step EXCEPT !.status = "failed",
                      !.error = <<IF ev.message = "" THEN "Search failed"
                                  ELSE ev.message>>]

\* What a consumer reads from the j-th value it was handed: the properties the copy
\* holds itself, and the steps through the array the copy shares with progress
Reads(j) ==
    [status |-> emitted[j].status, currentStep |-> emitted[j].currentStep,
     totalSteps |-> emitted[j].totalSteps, finalReport |-> emitted[j].finalReport,
     steps |-> steps]

NoResp == [query |-> <<>>, results |-> <<>>]
NoOutcome == [kind |-> "none", resp |-> NoResp, message |-> ""]

\* No other run has touched the cache, and no call was made on it directly
NoOther == [inflight |-> {}, got |-> <<>>]
NoOp == [name |-> "none", query |-> <<>>, arg |-> <<>>, ret |-> <<>>, at |-> 0]

\* None of the functions was called on its own
NoCall == [name |-> "none", args |-> <<>>, ret |-> <<>>]

Init ==
    /\ now = 0
    /\ ticks = 0
    /\ mainQuery \in Topics
    /\ cache \in EarlierCaches(mainQuery)
    /\ pc = "idle"
    /\ steps = <<>>
    /\ progress = [currentStep |-> 0, totalSteps |-> 0, status |-> "planning",
                   finalReport |-> <<>>]
    /\ i = 0
    /\ k = 0
    /\ call = <<>>
    /\ outcome = <<>>
    /\ emitted = <<>>
    /\ invoked = {}
    /\ startedAt = 0
    /\ other = NoOther
    /\ op = NoOp
    /\ nops = 0
    /\ written = <<>>
    /\ unswept = <<>>
    /\ fn = NoCall

\* The call up to the start of the batch loop
Begin ==
    /\ pc = "idle"
    /\ LET queries == PlanOf[mainQuery]
           n == Len(queries)
           planned == [currentStep |-> 0, totalSteps |-> n, status |-> "planning",
                       finalReport |-> <<>>]
       IN  /\ steps' = [s \in 0..(n - 1) |->
                          [id |-> s, query |-> queries[s + 1], status |-> "pending",
                           results |-> <<>>, error |-> <<>>]]
           /\ progress' = [planned EXCEPT !.status = "researching"]
           /\ emitted' = <<Snapshot(planned), Snapshot(progress')>>
           /\ call' = [s \in 0..(n - 1) |-> "none"]
           /\ outcome' = [s \in 0..(n - 1) |-> NoOutcome]
    /\ i' = 0
    /\ k' = 0
    /\ startedAt' = now
    /\ pc' = "batch"
    /\ UNCHANGED <<now, cache, mainQuery, invoked, ticks, aside>>

\* Mutant: steps.forEach in place of batch.forEach
StartBatchAllSteps ==
    /\ pc = "batch"
    /\ steps' = [s \in DOMAIN steps |-> [steps[s] EXCEPT !.status = "searching"]]
    /\ emitted' = Append(emitted, Snapshot(progress))
    /\ k' = 0
    /\ pc' = "dispatch"
    /\ UNCHANGED <<now, cache, mainQuery, progress, i, call, outcome, invoked, ticks,
                   startedAt, aside>>

\* The head of one iteration: the batch's steps become searching, one emission
StartBatch ==
    /\ pc = "batch"
    /\ steps' = [s \in DOMAIN steps |->
                    IF s \in Batch(i) THEN [steps[s] EXCEPT !.status = "searching"]
                    ELSE steps[s]]
    /\ emitted' = Append(emitted, Snapshot(progress))
    /\ k' = 0
    /\ pc' = "dispatch"
    /\ UNCHANGED <<now, cache, mainQuery, progress, i, call, outcome, invoked, ticks,
                   startedAt, aside>>

\* Mutant: the callback writes batchIndex + 1 into currentStep, without i
DispatchWithinBatch ==
    /\ pc = "dispatch"
    /\ LET s == i + k
           got == CacheGet(cache, now, steps[s].query)
           ev == [kind |-> "hit", resp |-> got.ret[1], message |-> ""]
       IN  /\ progress' = [progress EXCEPT !.currentStep = k + 1]
           /\ cache' = got.cache
           /\ IF got.ret # <<>>
              THEN /\ steps' = [steps EXCEPT ![s] = StepAfter(steps[s], ev)]
                   /\ outcome' = [outcome EXCEPT ![s] = ev]
                   /\ emitted' = Append(emitted, Snapshot(progress'))
                   /\ UNCHANGED call
              ELSE /\ call' = [call EXCEPT ![s] = "pending"]
                   /\ UNCHANGED <<steps, outcome, emitted>>
    /\ k' = k + 1
    /\ pc' = IF k + 1 = Cardinality(Batch(i)) THEN "await" ELSE "dispatch"
    /\ UNCHANGED <<now, mainQuery, i, invoked, ticks, startedAt, aside>>

\* Mutant: the callback writes the step's index, i + batchIndex, into currentStep
DispatchFromZero ==
    /\ pc = "dispatch"
    /\ LET s == i + k
           got == CacheGet(cache, now, steps[s].query)
           ev == [kind |-> "hit", resp |-> got.ret[1], message |-> ""]
       IN  /\ progress' = [progress EXCEPT !.currentStep = i + k]
           /\ cache' = got.cache
           /\ IF got.ret # <<>>
              THEN /\ steps' = [steps EXCEPT ![s] = StepAfter(steps[s], ev)]
                   /\ outcome' = [outcome EXCEPT ![s] = ev]
                   /\ emitted' = Append(emitted, Snapshot(progress'))
                   /\ UNCHANGED call
              ELSE /\ call' = [call EXCEPT ![s] = "pending"]
                   /\ UNCHANGED <<steps, outcome, emitted>>
    /\ k' = k + 1
    /\ pc' = IF k + 1 = Cardinality(Batch(i)) THEN "await" ELSE "dispatch"
    /\ UNCHANGED <<now, mainQuery, i, invoked, ticks, startedAt, aside>>

\* batch.map calls the callback of step i + k, which runs up to its first await: to
\* its end on a cache hit, to the provider call on a miss
Dispatch ==
    /\ pc = "dispatch"
    /\ LET s == i + k
           got == CacheGet(cache, now, steps[s].query)
           ev == [kind |-> "hit", resp |-> got.ret[1], message |-> ""]
       IN  /\ progress' = [progress EXCEPT !.currentStep = i + k + 1]
           /\ cache' = got.cache
           /\ IF got.ret # <<>>
              THEN /\ steps' = [steps EXCEPT ![s] = StepAfter(steps[s], ev)]
                   /\ outcome' = [outcome EXCEPT ![s] = ev]
                   /\ emitted' = Append(emitted, Snapshot(progress'))
                   /\ UNCHANGED call
              ELSE /\ call' = [call EXCEPT ![s] = "pending"]
                   /\ UNCHANGED <<steps, outcome, emitted>>
    /\ k' = k + 1
    /\ pc' = IF k + 1 = Cardinality(Batch(i)) THEN "await" ELSE "dispatch"
    /\ UNCHANGED <<now, mainQuery, i, invoked, ticks, startedAt, aside>>

Awaiting(s) == steps[s].status = "searching" /\ call[s] = "pending"

\* Mutant: only a response that holds results is stored in the cache
ResolveStoresResultsOnly(s, resp) ==
    /\ pc = "await"
    /\ Awaiting(s)
    /\ LET ev == [kind |-> "resolved", resp |-> resp, message |-> ""] IN
       /\ cache' = IF resp.results = <<>> THEN cache
                   ELSE CacheSet(cache, now, steps[s].query, resp)
       /\ steps' = [steps EXCEPT ![s] = StepAfter(steps[s], ev)]
       /\ outcome' = [outcome EXCEPT ![s] = ev]
    /\ call' = [call EXCEPT ![s] = "settled"]
    /\ emitted' = Append(emitted, Snapshot(progress))
    /\ UNCHANGED <<now, mainQuery, pc, progress, i, k, invoked, ticks, startedAt, aside>>

\* webSearch resolves before the timeout: the callback continues after the race
Resolve(s, resp) ==
    /\ pc = "await"
    /\ Awaiting(s)
    /\ LET ev == [kind |-> "resolved", resp |-> resp, message |-> ""] IN
       /\ cache' = CacheSet(cache, now, steps[s].query, resp)
       /\ steps' = [steps EXCEPT ![s] = StepAfter(steps[s], ev)]
       /\ outcome' = [outcome EXCEPT ![s] = ev]
    /\ call' = [call EXCEPT ![s] = "settled"]
    /\ emitted' = Append(emitted, Snapshot(progress))
    /\ UNCHANGED <<now, mainQuery, pc, progress, i, k, invoked, ticks, startedAt, aside>>

\* Mutant: the catch block stores an empty answer for the query
RejectStoresNoResults(s, error) ==
    /\ pc = "await"
    /\ Awaiting(s)
    /\ LET ev == [kind |-> "rejected", resp |-> NoResp, message |-> error.message] IN
       /\ steps' = [steps EXCEPT ![s] = StepAfter(steps[s], ev)]
       /\ outcome' = [outcome EXCEPT ![s] = [ev EXCEPT !.kind = "threw"]]
    /\ call' = [call EXCEPT ![s] = "settled"]
    /\ cache' = CacheSet(cache, now, steps[s].query,
                         [query |-> steps[s].query, results |-> <<>>])
    /\ emitted' = Append(emitted, Snapshot(progress))
    /\ UNCHANGED <<now, mainQuery, pc, progress, i, k, invoked, ticks, startedAt,
                   aside>>

\* webSearch rejects before the timeout
Reject(s, error) ==
    /\ pc = "await"
    /\ Awaiting(s)
    /\ LET ev == [kind |-> "rejected", resp |-> NoResp, message |-> error.message] IN
       /\ steps' = [steps EXCEPT ![s] = StepAfter(steps[s], ev)]
       /\ outcome' = [outcome EXCEPT ![s] = [ev EXCEPT !.kind = "threw"]]
    /\ call' = [call EXCEPT ![s] = "settled"]
    /\ emitted' = Append(emitted, Snapshot(progress))
    /\ UNCHANGED <<now, cache, mainQuery, pc, progress, i, k, invoked, ticks, startedAt,
                   aside>>

\* Mutant: the provider call is awaited without a timer
TimeoutNeverFires(s) ==
    /\ FALSE
    /\ UNCHANGED vars

\* Mutant: the catch block returns without the onProgress call that follows it
TimeoutWithoutEmission(s) ==
    /\ pc = "await"
    /\ Awaiting(s)
    /\ LET ev == [kind |-> "rejected", resp |-> NoResp, message |-> "Search timeout"] IN
       /\ steps' = [steps EXCEPT ![s] = StepAfter(steps[s], ev)]
       /\ outcome' = [outcome EXCEPT ![s] = [ev EXCEPT !.kind = "timeout"]]
    /\ UNCHANGED <<now, cache, mainQuery, pc, progress, i, k, call, emitted, invoked,
                   ticks, startedAt, aside>>

\* The 20000 ms timer fires first; the provider call is left running
Timeout(s) ==
    /\ pc = "await"
    /\ Awaiting(s)
    /\ LET ev == [kind |-> "rejected", resp |-> NoResp, message |-> "Search timeout"] IN
       /\ steps' = [steps EXCEPT ![s] = StepAfter(steps[s], ev)]
       /\ outcome' = [outcome EXCEPT ![s] = [ev EXCEPT !.kind = "timeout"]]
    /\ emitted' = Append(emitted, Snapshot(progress))
    /\ UNCHANGED <<now, cache, mainQuery, pc, progress, i, k, call, invoked, ticks,
                   startedAt, aside>>

\* Mutant: the answer of a provider call that lost the race is stored all the same
LateSettleStores(s) ==
    /\ pc \in {"await", "delay", "done"}
    /\ call[s] = "pending"
    /\ steps[s].status \in Settled
    /\ call' = [call EXCEPT ![s] = "settled"]
    /\ cache' = CacheSet(cache, now, steps[s].query,
                         [query |-> steps[s].query, results |-> Found])
    /\ UNCHANGED <<now, mainQuery, pc, steps, progress, i, k, outcome, emitted,
                   invoked, ticks, startedAt, aside>>

\* A provider call that lost the race settles: the race is over, nobody listens
LateSettle(s) ==
    /\ pc \in {"await", "delay", "done"}
    /\ call[s] = "pending"
    /\ steps[s].status \in Settled
    /\ call' = [call EXCEPT ![s] = "settled"]
    /\ UNCHANGED <<now, cache, mainQuery, pc, steps, progress, i, k, outcome, emitted,
                   invoked, ticks, startedAt, aside>>

\* Mutant: Promise.race in place of Promise.all
BatchDoneOnFirst ==
    /\ pc = "await"
    /\ \E s \in Batch(i) : steps[s].status \in Settled
    /\ IF i + batchSize < N
       THEN pc' = "delay" /\ UNCHANGED i
       ELSE pc' = "decide" /\ i' = i + batchSize
    /\ UNCHANGED <<now, cache, mainQuery, steps, progress, k, call, outcome, emitted,
                   invoked, ticks, startedAt, aside>>

\* Mutant: a failed step ends the batch loop
BatchDoneAbortOnFailure ==
    /\ pc = "await"
    /\ \A s \in Batch(i) : steps[s].status \in Settled
    /\ IF i + batchSize < N /\ \A s \in Batch(i) : steps[s].status = "completed"
       THEN pc' = "delay" /\ UNCHANGED i
       ELSE pc' = "decide" /\ i' = i + batchSize
    /\ UNCHANGED <<now, cache, mainQuery, steps, progress, k, call, outcome, emitted,
                   invoked, ticks, startedAt, aside>>

\* Mutant: the delay is awaited after every batch, the last one too
BatchDoneAlwaysDelays ==
    /\ pc = "await"
    /\ \A s \in Batch(i) : steps[s].status \in Settled
    /\ pc' = "delay"
    /\ UNCHANGED <<now, cache, mainQuery, steps, progress, i, k, call, outcome, emitted,
                   invoked, ticks, startedAt, aside>>

\* Promise.all resolves; the delay is awaited unless this was the last batch
BatchDone ==
    /\ pc = "await"
    /\ \A s \in Batch(i) : steps[s].status \in Settled
    /\ IF i + batchSize < N
       THEN pc' = "delay" /\ UNCHANGED i
       ELSE pc' = "decide" /\ i' = i + batchSize
    /\ UNCHANGED <<now, cache, mainQuery, steps, progress, k, call, outcome, emitted,
                   invoked, ticks, startedAt, aside>>

\* The 1000 ms timer between batches fires
DelayElapsed ==
    /\ pc = "delay"
    /\ i' = i + batchSize
    /\ pc' = "batch"
    /\ UNCHANGED <<now, cache, mainQuery, steps, progress, k, call, outcome, emitted,
                   invoked, ticks, startedAt, aside>>

\* Mutant: the run fails without a report
FailWithoutReport ==
    /\ pc = "decide"
    /\ successfulSteps = <<>>
    /\ progress' = [progress EXCEPT !.status = "failed"]
    /\ emitted' = Append(emitted, Snapshot(progress'))
    /\ pc' = "done"
    /\ UNCHANGED <<now, cache, mainQuery, steps, i, k, call, outcome, invoked, ticks,
                   startedAt, aside>>

\* Mutant: the return after the failure report is missing
FailWithoutReturn ==
    /\ pc = "decide"
    /\ successfulSteps = <<>>
    /\ progress' = [progress EXCEPT !.status = "failed",
                                    !.finalReport = <<FailedReport>>]
    /\ emitted' = Append(emitted, Snapshot(progress'))
    /\ pc' = "synthesize"
    /\ UNCHANGED <<now, cache, mainQuery, steps, i, k, call, outcome, invoked, ticks,
                   startedAt, aside>>

\* No successful step: the run fails and returns
Fail ==
    /\ pc = "decide"
    /\ successfulSteps = <<>>
    /\ progress' = [progress EXCEPT !.status = "failed",
                                    !.finalReport = <<FailedReport>>]
    /\ emitted' = Append(emitted, Snapshot(progress'))
    /\ pc' = "done"
    /\ UNCHANGED <<now, cache, mainQuery, steps, i, k, call, outcome, invoked, ticks,
                   startedAt, aside>>

Synthesizing ==
    /\ pc = "decide"
    /\ successfulSteps # <<>>
    /\ progress' = [progress EXCEPT !.status = "synthesizing"]
    /\ emitted' = Append(emitted, Snapshot(progress'))
    /\ pc' = "synthesize"
    /\ UNCHANGED <<now, cache, mainQuery, steps, i, k, call, outcome, invoked, ticks,
                   startedAt, aside>>

\* Mutant: the last onProgress call comes before the status is set to completed
CompleteAfterEmission ==
    /\ pc = "synthesize"
    /\ \E allResults \in {flatten(successfulSteps)} :
       \E uniqueResults \in {deduplicateResults(allResults)} :
       \E rankedResults \in {rankResults(uniqueResults, mainQuery)} :
          progress' = [progress EXCEPT
              !.finalReport = <<formatResearchReport(mainQuery, slice(rankedResults, 20))>>,
              !.status = "completed"]
    /\ invoked' = {"deduplicateResults", "rankResults", "formatResearchReport"}
    /\ emitted' = Append(emitted, Snapshot([progress' EXCEPT !.status = progress.status]))
    /\ pc' = "done"
    /\ UNCHANGED <<now, cache, mainQuery, steps, i, k, call, outcome, ticks, startedAt,
                   aside>>

\* The last step of the call: the report, the last emission, return progress
Complete ==
    /\ pc = "synthesize"
    /\ \E allResults \in {flatten(successfulSteps)} :
       \E uniqueResults \in {deduplicateResults(allResults)} :
       \E rankedResults \in {rankResults(uniqueResults, mainQuery)} :
          progress' = [progress EXCEPT
              !.finalReport = <<formatResearchReport(mainQuery, slice(rankedResults, 20))>>,
              !.status = "completed"]
    /\ invoked' = {"deduplicateResults", "rankResults", "formatResearchReport"}
    /\ emitted' = Append(emitted, Snapshot(progress'))
    /\ pc' = "done"
    /\ UNCHANGED <<now, cache, mainQuery, steps, i, k, call, outcome, ticks, startedAt,
                   aside>>

\* What the promise performDeepResearch returned resolves with: the progress object
\* itself, steps included
Returned ==
    [status |-> progress.status, currentStep |-> progress.currentStep,
     totalSteps |-> progress.totalSteps, finalReport |-> progress.finalReport,
     steps |-> steps]

\* Time passes while the run is not executing
Tick ==
    /\ pc \in {"idle", "await", "delay"}
    /\ ticks < MaxTicks
    /\ ticks' = ticks + 1
    /\ now' = now + TickMs
    /\ UNCHANGED <<cache, mainQuery, pc, steps, progress, i, k, call, outcome, emitted,
                   invoked, startedAt, aside>>

Next ==
    \/ Begin
    \/ StartBatch
    \/ Dispatch
    \/ \E s \in DOMAIN steps : \E resp \in Responses(steps[s].query) : Resolve(s, resp)
    \/ \E s \in DOMAIN steps : \E error \in Thrown : Reject(s, error)
    \/ \E s \in DOMAIN steps : Timeout(s)
    \/ \E s \in DOMAIN steps : LateSettle(s)
    \/ BatchDone
    \/ DelayElapsed
    \/ Fail
    \/ Synthesizing
    \/ Complete
    \/ Tick

Spec == Init /\ [][Next]_vars

\* The event loop runs every continuation that is ready, and every timer that was set
\* fires; the provider alone is free never to answer
RunStep ==
    \/ Begin
    \/ StartBatch
    \/ Dispatch
    \/ \E s \in DOMAIN steps : Timeout(s)
    \/ BatchDone
    \/ DelayElapsed
    \/ Fail
    \/ Synthesizing
    \/ Complete

Fairness == WF_vars(RunStep)

FairSpec == Spec /\ Fairness

(***************************************************************************)
(* Direct use of the cache: set, get and clearExpired called on searchCache *)
(* by any caller, at any time                                              *)
(***************************************************************************)
\* Number of set and get calls, and of clock advances, explored
MaxCacheCalls == 2
MaxCacheTicks == 2

\* The period of the sweep timer; the clock advances by it
SWEEP_INTERVAL == 5 * 60 * 1000

\* A query with stray capitals and whitespace, and one the same but for those
Spelled == <<"Go", " ", "\t", "VS", " ", "Rust">>
Respelled == <<" ", "go", " ", "vs", "\t", "rust", " ">>

\* A query of whitespace only: its key is the empty string
Blank == <<" ", "\t">>

\* The queries the calls are made with
CacheQueries == {Blank, Spelled, Respelled, <<"new">>}

\* The provider's answer to the j-th of the queries that filled the cache before
Filler(j) == [query |-> <<"q", ToString(j)>>, results |-> <<>>]

Fillers(from, to) == [j \in 1..(to - from + 1) |-> Filler(from + j - 1)]

FoundFor(query) == [query |-> query, results |-> Found]

\* The cache after set was called at time t with each response of rs in turn, under
\* the query it answers
RECURSIVE Stored(_, _, _)
Stored(c, t, rs) ==
    \* Len(c) has the cache computed call by call instead of all at the end
    IF Len(c) >= 0 /\ rs = <<>> THEN c
    ELSE Stored(CacheSet(c, t, Head(rs).query, Head(rs)), t, Tail(rs))

\* The states earlier calls can have left the cache in: empty; full after sets at
\* time 0, the first of them for Spelled or for Blank; and full after sets for
\* Spelled and others at time 0 and, one sweep period later, a set for Respelled
\* and one for a last new query
EarlierUses ==
    LET rest == MAX_CACHE_SIZE - 1
    IN  { [now |-> 0, cache |-> <<>>],
          [now |-> 0,
           cache |-> Stored(<<>>, 0, <<FoundFor(Spelled)>> \o Fillers(1, rest))],
          [now |-> 0,
           cache |-> Stored(<<>>, 0, <<FoundFor(Blank)>> \o Fillers(1, rest))],
          [now |-> SWEEP_INTERVAL,
           cache |-> Stored(Stored(<<>>, 0, <<FoundFor(Spelled)>> \o Fillers(1, rest - 1)),
                            SWEEP_INTERVAL, <<FoundFor(Respelled), Filler(rest)>>)] }

\* The words of a query, in lower case: what is left of it without its whitespace
\* and capitals
Words(query) == SelectSeq(splitWs(toLowerCase(query)), LAMBDA w : w # <<>>)

\* Words on the queries and keys of the model, tabulated
KnownQueries ==
    LET qs == Queries \cup OtherQueries \cup CacheQueries
                 \cup {Filler(j).query : j \in 1..MAX_CACHE_SIZE}
    IN  qs \cup {normalizeQuery(q) : q \in qs}

WordsTable == [query \in KnownQueries |-> Words(query)]

WordsOf(query) == IF query \in KnownQueries THEN WordsTable[query] ELSE Words(query)

AllWords == {WordsOf(query) : query \in CacheQueries}

\* The entries of cache c whose key has these words
EntriesFor(c, words) == {j \in 1..Len(c) : WordsOf(c[j].query) = words}

\* What the entries of cache c say was last stored for the queries of the calls
WrittenIn(c) ==
    [words \in AllWords |->
        IF EntriesFor(c, words) = {} THEN <<>>
        ELSE LET j == CHOOSE j \in EntriesFor(c, words) : TRUE
             IN  <<[results |-> c[j].results, at |-> c[j].timestamp]>>]

CacheInit ==
    /\ \E use \in EarlierUses :
          /\ now = use.now
          /\ cache = use.cache
          /\ unswept = use.cache
          /\ written = WrittenIn(use.cache)
    /\ ticks = 0
    /\ op = NoOp
    /\ nops = 0
    /\ other = NoOther
    /\ mainQuery = <<>>
    /\ pc = "idle"
    /\ steps = <<>>
    /\ progress = [currentStep |-> 0, totalSteps |-> 0, status |-> "planning",
                   finalReport |-> <<>>]
    /\ i = 0
    /\ k = 0
    /\ call = <<>>
    /\ outcome = <<>>
    /\ emitted = <<>>
    /\ invoked = {}
    /\ startedAt = 0
    /\ fn = NoCall

\* searchCache.set(query, results)
DirectSet(query, results) ==
    /\ nops < MaxCacheCalls
    /\ cache' = CacheSet(cache, now, query, results)
    /\ unswept' = CacheSet(unswept, now, query, results)
    /\ written' = [words \in AllWords |->
                      IF words = WordsOf(query)
                      THEN <<[results |-> results, at |-> now]>>
                      ELSE IF EntriesFor(cache, words) # {} /\ EntriesFor(cache', words) = {}
                      THEN <<>>
                      ELSE written[words]]
    /\ op' = [name |-> "set", query |-> query, arg |-> <<results>>, ret |-> <<>>,
              at |-> now]
    /\ nops' = nops + 1
    /\ UNCHANGED <<now, ticks, run, other, fn>>

\* searchCache.get(query)
DirectGet(query) ==
    /\ nops < MaxCacheCalls
    /\ cache' = CacheGet(cache, now, query).cache
    /\ unswept' = CacheGet(unswept, now, query).cache
    /\ op' = [name |-> "get", query |-> query, arg |-> <<>>,
              ret |-> CacheGet(cache, now, query).ret, at |-> now]
    /\ nops' = nops + 1
    /\ UNCHANGED <<now, ticks, run, other, written, fn>>

\* The sweep timer fires: searchCache.clearExpired()
Sweep ==
    /\ cache' = clearExpired(cache, now)
    /\ UNCHANGED <<now, ticks, run, other, op, nops, written, unswept, fn>>

\* Time passes between the calls
CacheTick ==
    /\ ticks < MaxCacheTicks
    /\ ticks' = ticks + 1
    /\ now' = now + SWEEP_INTERVAL
    /\ UNCHANGED <<cache, run, aside>>

CacheNext ==
    \/ \E query \in CacheQueries : \E resp \in Responses(query) : DirectSet(query, resp)
    \/ \E query \in CacheQueries : DirectGet(query)
    \/ Sweep
    \/ CacheTick

CacheSpec == CacheInit /\ [][CacheNext]_vars

(***************************************************************************)
(* Another run of performDeepResearch on the one searchCache. Its callbacks *)
(* run while the run observed is suspended; what it does to the cache is   *)
(* the get at the head of a batch callback and the set after its provider  *)
(* call                                                                    *)
(***************************************************************************)
\* Number of calls the other run makes on the cache
MaxOtherCalls == 2

\* The run observed is suspended at an await of its batch loop
Suspended == pc \in {"await", "delay"}

SharedInit ==
    /\ Init
    /\ mainQuery = Spelled
    /\ cache = <<>>

\* A batch callback of the other run up to its await: a hit ends it, a miss
\* leaves its provider call in flight
OtherLookup(query) ==
    /\ Suspended
    /\ nops < MaxOtherCalls
    /\ query \notin other.inflight
    /\ LET got == CacheGet(cache, now, query) IN
       /\ cache' = got.cache
       /\ other' = IF got.ret # <<>>
                   THEN [other EXCEPT !.got = <<[query |-> query, resp |-> got.ret[1]]>>]
                   ELSE [other EXCEPT !.inflight = @ \cup {query}]
    /\ nops' = nops + 1
    /\ UNCHANGED <<now, ticks, run, op, written, unswept, fn>>

\* The other run's provider call resolves in time and its callback stores the answer
OtherStore(query, resp) ==
    /\ Suspended
    /\ nops < MaxOtherCalls
    /\ query \in other.inflight
    /\ cache' = CacheSet(cache, now, query, resp)
    /\ other' = [other EXCEPT !.inflight = @ \ {query}]
    /\ nops' = nops + 1
    /\ UNCHANGED <<now, ticks, run, op, written, unswept, fn>>

\* The steps of both runs; the clock stands still, since the age of an entry plays
\* no part in which query it answers
SharedNext ==
    \/ Begin
    \/ StartBatch
    \/ Dispatch
    \/ \E s \in DOMAIN steps : \E resp \in Responses(steps[s].query) : Resolve(s, resp)
    \/ \E s \in DOMAIN steps : \E error \in Thrown : Reject(s, error)
    \/ \E s \in DOMAIN steps : Timeout(s)
    \/ \E s \in DOMAIN steps : LateSettle(s)
    \/ BatchDone
    \/ DelayElapsed
    \/ Fail
    \/ Synthesizing
    \/ Complete
    \/ \E query \in OtherQueries : OtherLookup(query)
    \/ \E query \in OtherQueries : \E resp \in Responses(query) : OtherStore(query, resp)

SharedSpec == SharedInit /\ [][SharedNext]_vars

(***************************************************************************)
(* generateResearchQueries called on its own, on topics put together from  *)
(* the words the planner looks for and one it does not                     *)
(***************************************************************************)
\* Number of words of a topic
MaxTopicWords == 3

\* What a topic is made of: the words and phrases the planner looks for, in capitals
\* or not, and a word it does not look for
Vocabulary ==
    { <<"Who", " ", "is">>, <<"CEO">>, <<"review">>, <<"VS">>, <<"how", " ", "to">>,
      <<"Latest">>, <<"Rust">> }

\* The phrases joined by single spaces
RECURSIVE Join(_)
Join(ps) == IF Len(ps) = 1 THEN ps[1] ELSE ps[1] \o <<" ">> \o Join(Tail(ps))

\* The topics: the words as they are, and with whitespace before and after them
PlanTopics ==
    LET lists == UNION {[1..n -> Vocabulary] : n \in 1..MaxTopicWords}
    IN  {Join(ws) : ws \in lists} \cup {<<" ">> \o Join(ws) \o <<"\t">> : ws \in lists}

\* No run, no call on the cache
AtRest ==
    /\ now = 0
    /\ ticks = 0
    /\ cache = <<>>
    /\ mainQuery = <<>>
    /\ pc = "idle"
    /\ steps = <<>>
    /\ progress = [currentStep |-> 0, totalSteps |-> 0, status |-> "planning",
                   finalReport |-> <<>>]
    /\ i = 0
    /\ k = 0
    /\ call = <<>>
    /\ outcome = <<>>
    /\ emitted = <<>>
    /\ invoked = {}
    /\ startedAt = 0
    /\ other = NoOther
    /\ op = NoOp
    /\ nops = 0
    /\ written = <<>>
    /\ unswept = <<>>

PlanInit ==
    /\ AtRest
    /\ \E topic \in PlanTopics :
          fn = [name |-> "generateResearchQueries", args |-> <<topic>>, ret |-> <<>>]

\* generateResearchQueries(mainQuery) returns
Plan ==
    /\ fn.name = "generateResearchQueries"
    /\ fn.ret = <<>>
    /\ fn' = [fn EXCEPT !.ret = <<generateResearchQueries(fn.args[1])>>]
    /\ UNCHANGED <<now, cache, ticks, run, other, op, nops, written, unswept>>

PlanNext == Plan

PlanSpec == PlanInit /\ [][PlanNext]_vars

(***************************************************************************)
(* deduplicateResults, rankResults and the choice of the report's results  *)
(* (the tail of performDeepResearch), each on its own                      *)
(***************************************************************************)
\* Number of results of a short list, and of a long one
MaxResults == 3
MaxListed == 22

\* The results short lists are made of. A URL is spelled scheme, host labels, "/"
\* and what follows the host, with "?" and "#" as symbols of their own
Pool ==
    { [title |-> <<"Rust", " ", "Book">>, snippet |-> <<"learn", " ", "rust">>,
       url |-> <<"https://", "x.com", "/", "a", "?", "ref=1">>],
      [title |-> <<"Notes">>, snippet |-> <<>>,
       url |-> <<"https://", "x.com", "/", "a", "#", "section">>],
      [title |-> <<"Ada">>, snippet |-> <<"rust">>,
       url |-> <<"HTTPS://", "X.COM", "/", "A">>],
      [title |-> <<"Ada">>, snippet |-> LongSnippet,
       url |-> <<"https://", "en.", "wikipedia.org", "/", "wiki">>],
      [title |-> <<"Notes">>, snippet |-> <<>>,
       url |-> <<"https://", "evil.com", "/", "?", "u=", "github.com">>],
      [title |-> <<"Rust">>, snippet |-> <<>>,
       url |-> <<"https://", "x.com", "/", "b", "#", "top", "?", "q">>] }

ShortLists == UNION {[1..n -> Pool] : n \in 0..MaxResults}

\* The topics results are ranked for: one with short words, one with a word twice
\* and stray whitespace
RankTopics ==
    { <<"Rust", " ", "VS", " ", "Go">>, <<" ", "rust", "\t", "Ada", " ", "rust">> }

\* The j-th result of a long list: every m-th names the topic in its title, every
\* fifth is on a trusted domain if w is set, and d results in a row share a URL
Listed(j, m, w, d) ==
    [title |-> IF j % m = 0 THEN <<"Rust", " ", ToString(j)>> ELSE <<"Notes">>,
     snippet |-> IF j % 4 = 0 THEN <<"rust">> ELSE <<>>,
     url |-> <<"https://", IF w /\ j % 5 = 0 THEN "github.com" ELSE "x.com", "/",
               ToString((j + d - 1) \div d), "?", ToString(j)>>]

LongLists ==
    { [j \in 1..n |-> Listed(j, m, w, d)] :
        n \in 0..MaxListed, m \in 1..3, w \in BOOLEAN, d \in 1..2 }

RankInit ==
    /\ AtRest
    /\ \/ \E rs \in ShortLists :
             fn = [name |-> "deduplicateResults", args |-> <<rs>>, ret |-> <<>>]
       \/ \E rs \in ShortLists : \E topic \in RankTopics :
             fn = [name |-> "rankResults", args |-> <<rs, topic>>, ret |-> <<>>]
       \/ \E rs \in LongLists :
             fn = [name |-> "topResults", args |-> <<rs, <<"Rust">>>>, ret |-> <<>>]

\* deduplicateResults(allResults) returns
Dedupe ==
    /\ fn.name = "deduplicateResults"
    /\ fn.ret = <<>>
    /\ fn' = [fn EXCEPT !.ret = <<deduplicateResults(fn.args[1])>>]
    /\ UNCHANGED <<now, cache, ticks, run, other, op, nops, written, unswept>>

\* rankResults(results, mainQuery) returns
Rank ==
    /\ fn.name = "rankResults"
    /\ fn.ret = <<>>
    /\ fn' = [fn EXCEPT !.ret = <<rankResults(fn.args[1], fn.args[2])>>]
    /\ UNCHANGED <<now, cache, ticks, run, other, op, nops, written, unswept>>

\* The results performDeepResearch hands to formatResearchReport, from allResults
Top ==
    /\ fn.name = "topResults"
    /\ fn.ret = <<>>
    /\ \E uniqueResults \in {deduplicateResults(fn.args[1])} :
       \E rankedResults \in {rankResults(uniqueResults, fn.args[2])} :
          fn' = [fn EXCEPT !.ret = <<slice(rankedResults, 20)>>]
    /\ UNCHANGED <<now, cache, ticks, run, other, op, nops, written, unswept>>

RankNext ==
    \/ Dedupe
    \/ Rank
    \/ Top

RankSpec == RankInit /\ [][RankNext]_vars

(***************************************************************************)
(* Properties                                                              *)
(***************************************************************************)
Terminal == {"completed", "failed"}

Started == pc # "idle"

StatusOf(s) == steps[s].status

NoneCompleted == \A s \in DOMAIN steps : StatusOf(s) # "completed"

EmittedStatus == [j \in 1..Len(emitted) |-> emitted[j].status]

\* C1: under every provider behaviour (results, no results, a throw, no answer at
\* all) the call eventually returns, and what it returns has status completed or
\* failed and every step completed or failed.
C1_Resolves ==
    /\ <>(pc = "done")
    /\ [](pc = "done" =>
            /\ progress.status \in Terminal
            /\ \A s \in DOMAIN steps : StatusOf(s) \in Settled)

\* The run returned although the provider never answered any call
C1_Witness ==
    /\ pc = "done"
    /\ progress.status = "failed"
    /\ \A s \in DOMAIN steps : outcome[s].kind = "timeout" /\ call[s] = "pending"

\* C2: the run ends completed exactly when some step ended completed; with no
\* completed step it goes from researching straight to failed with the fixed
\* report, synthesizing is never emitted and deduplicateResults, rankResults and
\* formatResearchReport never run.
C2_CompletedIffAStepCompleted ==
    /\ pc = "done" => (progress.status = "completed" <=> ~NoneCompleted)
    /\ NoneCompleted =>
          /\ invoked = {}
          /\ \A j \in 1..Len(emitted) : emitted[j].status # "synthesizing"
    /\ (pc = "done" /\ NoneCompleted) =>
          /\ progress.status = "failed"
          /\ progress.finalReport = <<FailedReport>>
          /\ EmittedStatus[Len(emitted)] = "failed"
          /\ EmittedStatus[Len(emitted) - 1] = "researching"

\* The provider returned no results for every sub-query and the run has ended
C2_Witness ==
    /\ pc = "done"
    /\ progress.status = "failed"
    /\ \A s \in DOMAIN steps :
          /\ outcome[s].kind = "resolved"
          /\ steps[s].error = <<"No results found">>

\* C3: a step's status only moves pending -> searching -> completed | failed.
C3_StepStatusMonotonic ==
    [][\A s \in DOMAIN steps :
          \/ steps'[s].status = StatusOf(s)
          \/ StatusOf(s) = "pending" /\ steps'[s].status = "searching"
          \/ StatusOf(s) = "searching" /\ steps'[s].status \in Settled]_vars

\* Steps in all four statuses' worth of progress: one completed, one failed, one
\* searching from the first batch behind them, the last still pending
C3_Witness ==
    /\ Started
    /\ StatusOf(0) = "completed"
    /\ StatusOf(1) = "failed"
    /\ StatusOf(2) = "searching"
    /\ StatusOf(3) = "pending"

StatusFollows(a, b) ==
    \/ a = "planning" /\ b = "researching"
    \/ a = "researching" /\ b \in {"researching", "synthesizing", "failed"}
    \/ a = "synthesizing" /\ b = "completed"

\* C4: the statuses handed to onProgress are planning, researching one or more
\* times, then synthesizing and completed, or failed; after completed or failed
\* nothing more is handed over and the status stays.
C4_SnapshotStatusSequence ==
    /\ [](/\ emitted # <<>> => EmittedStatus[1] = "planning"
          /\ \A j \in 1..(Len(emitted) - 1) :
                StatusFollows(EmittedStatus[j], EmittedStatus[j + 1]))
    /\ [][progress.status \in Terminal =>
             progress'.status = progress.status /\ emitted' = emitted]_vars

\* A run that went through synthesizing to completed
C4_Witness ==
    /\ pc = "done"
    /\ Len(emitted) >= 4
    /\ EmittedStatus[Len(emitted) - 1] = "synthesizing"
    /\ EmittedStatus[Len(emitted)] = "completed"

\* C5: while the run is synthesizing, completed or failed no step is pending or
\* searching.
C5_NoOpenStepAfterResearch ==
    progress.status \in {"synthesizing", "completed", "failed"} =>
        \A s \in DOMAIN steps : StatusOf(s) \in Settled

\* The run is synthesizing over a mix of completed and failed steps
C5_Witness ==
    /\ progress.status = "synthesizing"
    /\ \E s \in DOMAIN steps : StatusOf(s) = "failed"
    /\ \E s \in DOMAIN steps : StatusOf(s) = "completed"

\* C6: steps 3k..3k+2, in planner order, form batch k; no step of a later batch
\* leaves pending before every step of the earlier batches has settled, and the
\* steps of one batch leave pending together.
C6_BatchesOfThreeInOrder ==
    Started =>
        /\ \A s \in DOMAIN steps : steps[s].query = PlanOf[mainQuery][s + 1]
        /\ \A s, t \in DOMAIN steps :
              /\ (s \div 3 < t \div 3 /\ StatusOf(t) # "pending")
                    => StatusOf(s) \in Settled
              /\ s \div 3 = t \div 3
                    => (StatusOf(s) = "pending" <=> StatusOf(t) = "pending")

\* The last step of the first batch settled first, the others are still searching
C6_Witness ==
    /\ Started
    /\ StatusOf(2) \in Settled
    /\ StatusOf(0) = "searching"
    /\ StatusOf(1) = "searching"
    /\ call[0] = "pending"
    /\ call[1] = "pending"

InFlight == {s \in DOMAIN call : call[s] = "pending"}

\* C7: at most 3 provider calls of a run are unsettled at any moment.
C7_AtMostThreeInFlight == Cardinality(InFlight) <= 3

\* C8: failed steps never abort the run: every planned step leaves pending, and
\* the run does not reach its end with a step that was never started.
C8_FailuresNeverAbort ==
    /\ <>(Started /\ \A s \in DOMAIN steps : StatusOf(s) # "pending")
    /\ [](pc \in {"decide", "synthesize", "done"} =>
            \A s \in DOMAIN steps : StatusOf(s) # "pending")

\* Every step of the first batch failed, each in another way, and the next batch runs
C8_Witness ==
    /\ Started
    /\ outcome[0].kind = "timeout"
    /\ outcome[1].kind = "threw"
    /\ outcome[2].kind = "resolved" /\ StatusOf(2) = "failed"
    /\ StatusOf(3) = "searching"

MissOutcome(s, thrownMessage) ==
    /\ (outcome[s].kind = "resolved" /\ outcome[s].resp.results # <<>>) =>
          /\ StatusOf(s) = "completed"
          /\ steps[s].results = <<outcome[s].resp>>
    /\ (outcome[s].kind = "resolved" /\ outcome[s].resp.results = <<>>) =>
          /\ StatusOf(s) = "failed"
          /\ steps[s].error = <<"No results found">>
    /\ outcome[s].kind = "timeout" =>
          /\ StatusOf(s) = "failed"
          /\ steps[s].error = <<"Search timeout">>
    /\ outcome[s].kind = "threw" =>
          /\ StatusOf(s) = "failed"
          /\ steps[s].error = <<thrownMessage>>

\* C9 as claimed: after a cache miss a step ends completed with the provider's
\* non-empty results, failed with 'No results found' on an empty result set,
\* failed with 'Search timeout' when the timer wins, and failed with the thrown
\* error's message when the provider call throws.
C9_Original ==
    \A s \in DOMAIN steps : MissOutcome(s, outcome[s].message)

\* C9 as amended: the same, except that a thrown error with an empty message
\* leaves the step failed with 'Search failed'.
C9_MissOutcome ==
    \A s \in DOMAIN steps :
        MissOutcome(s, IF outcome[s].message = "" THEN "Search failed"
                       ELSE outcome[s].message)

\* One batch with a step of each kind: results, a throw with a message, a timeout
C9_Witness ==
    /\ Started
    /\ outcome[0].kind = "resolved" /\ StatusOf(0) = "completed"
    /\ outcome[1].kind = "threw" /\ steps[1].error = <<"Failed to fetch">>
    /\ outcome[2].kind = "timeout"
    /\ outcome[3].kind = "resolved" /\ StatusOf(3) = "failed"

\* The unexpired entry the cache holds for a query, if any
Unexpired(query) ==
    {j \in 1..Len(cache) :
        cache[j].query = normalizeQuery(query) /\ now - cache[j].timestamp < CACHE_DURATION}

\* C10: a step executed while the cache holds an unexpired entry for its query
\* makes no provider call and is marked completed with the cached results.
C10_HitCompletes ==
    [][(pc = "dispatch" /\ k' = k + 1) =>
         \A j \in Unexpired(steps[i + k].query) :
            /\ call'[i + k] = "none"
            /\ steps'[i + k].status = "completed"
            /\ steps'[i + k].results = <<cache[j].results>>]_vars

\* The entry the cache holds for a query, whatever its age
Held(query) == {j \in 1..Len(cache) : cache[j].query = normalizeQuery(query)}

\* C11 as claimed: a run on a topic that starts less than 10 minutes after an
\* earlier run on it stored its results makes no provider call for any sub-query
\* whose result the earlier run stored.
C11_Original ==
    [][(pc = "dispatch" /\ k' = k + 1) =>
         \A j \in Held(steps[i + k].query) :
            startedAt - cache[j].timestamp < CACHE_DURATION => call'[i + k] = "none"]_vars

\* C11 as amended: the run makes no provider call for a sub-query whose stored
\* result is less than 10 minutes old at the moment the sub-query's step is
\* executed (the age is taken at each step's lookup, not at the start of the run).
C11_NoCallWhileStoredResultIsFresh ==
    [][(pc = "dispatch" /\ k' = k + 1) =>
         (Unexpired(steps[i + k].query) # {} =>
             /\ call'[i + k] = "none"
             /\ cache' = cache)]_vars

\* The repeated run has ended and made no provider call for the three sub-queries
\* the earlier run had stored
C11_Witness ==
    /\ pc = "done"
    /\ startedAt = 0
    /\ Len(cache) >= 3
    /\ \A s \in {0, 1, 3} : outcome[s].kind = "hit" /\ call[s] = "none"
    /\ call[2] # "none"

\* The other steps of the batch of step s
Others(s) == {t \in DOMAIN steps : t \div batchSize = s \div batchSize} \ {s}

\* The search of step t delivered results
Succeeded(t) == outcome[t].kind \in {"hit", "resolved"} /\ outcome[t].resp.results # <<>>

\* The provider call of step s exceeded the timeout while the rest of its batch succeeded
SlowAmongSuccesses(s) ==
    /\ outcome[s].kind = "timeout"
    /\ Others(s) # {}
    /\ \A t \in Others(s) : Succeeded(t)

SlowStepAloneFails(s) ==
    /\ StatusOf(s) = "failed"
    /\ steps[s].error = <<"Search timeout">>
    /\ \A t \in Others(s) : StatusOf(t) = "completed"
    /\ pc = "done" => progress.status = "completed"

C20_ResultsOnlyIfCompleted ==
    \A s \in DOMAIN steps :
        /\ steps[s].results # <<>> => StatusOf(s) = "completed"
        /\ steps[s].error # <<>> => StatusOf(s) = "failed"

\* The keys cache c holds
Keys(c) == {c[j].query : j \in 1..Len(c)}

\* This step is a call of set, of get
SetStep == op'.name = "set" /\ nops' = nops + 1
GetStep == op'.name = "get" /\ nops' = nops + 1

TenMinutes == 10 * 60 * 1000

\* C13: whatever set, get and clearExpired calls were made, with the empty and
\* whitespace-only queries among them, the cache holds at most 50 entries.
C13_AtMostFiftyEntries == Len(cache) <= 50

\* C14: set(q, r) evicts exactly one entry when the cache holds 50 entries and none
\* of them has q's key; a set for a key already present, or into a cache with fewer
\* than 50 entries, removes no other entry.
C14_EvictsOnlyWhenFull ==
    [][SetStep =>
         LET gone == Keys(cache) \ Keys(cache') IN
         IF Len(cache) = 50 /\ EntriesFor(cache, WordsOf(op'.query)) = {}
         THEN Cardinality(gone) = 1
         ELSE gone = {}]_vars

\* C15: the entry set evicts for capacity has the smallest insertion timestamp of
\* all entries held at that moment, also after keys were stored again.
C15_EvictsOldestInserted ==
    [][SetStep =>
         \A j \in 1..Len(cache) :
            cache[j].query \notin Keys(cache') =>
               \A m \in 1..Len(cache) : cache[j].timestamp <= cache[m].timestamp]_vars

\* C16: a get(q) made less than 10 minutes after the last set(q, r), whose entry
\* was not evicted in between, returns r; a get(q) made 10 minutes or more after it
\* returns absent and leaves no entry for q, and so does every later get(q) until
\* the next set(q, ...); get never returns the results of an entry that is 10
\* minutes old or older.
C16_GetHonoursTTL ==
    [][GetStep =>
         LET last == written[WordsOf(op'.query)] IN
         /\ (last # <<>> /\ now - last[1].at < TenMinutes) => op'.ret = <<last[1].results>>
         /\ (last # <<>> /\ now - last[1].at >= TenMinutes) =>
               /\ op'.ret = <<>>
               /\ EntriesFor(cache', WordsOf(op'.query)) = {}
         /\ op'.ret # <<>> =>
               \E j \in 1..Len(cache) :
                  /\ cache[j].results = op'.ret[1]
                  /\ now - cache[j].timestamp < TenMinutes]_vars

\* A get made 10 minutes after the set for its query returned absent, and the entry
\* is gone
C16_Witness ==
    /\ op.name = "get"
    /\ op.ret = <<>>
    /\ now = op.at
    /\ written[WordsOf(op.query)] # <<>>
    /\ now - written[WordsOf(op.query)][1].at = TenMinutes
    /\ EntriesFor(cache, WordsOf(op.query)) = {}
    /\ EntriesFor(unswept, WordsOf(op.query)) = {}

\* Two queries that are equal after lowercasing, trimming and collapsing whitespace
SameQuery(a, b) == WordsOf(a) = WordsOf(b)

\* C17: queries that are equal after lowercasing, trimming and collapsing runs of
\* whitespace address one entry: the cache never holds two entries for such
\* queries, a set with one leaves one entry for them holding its results, and a get
\* with one that follows a set with the other returns what was stored.
C17_EquivalentQueriesShareAnEntry ==
    /\ [](Cardinality({WordsOf(cache[j].query) : j \in 1..Len(cache)}) = Len(cache))
    /\ [][SetStep =>
            \A j \in 1..Len(cache') :
               SameQuery(cache'[j].query, op'.query) => <<cache'[j].results>> = op'.arg]_vars
    /\ [][(GetStep /\ op.name = "set" /\ SameQuery(op.query, op'.query)
              /\ now - op.at < TenMinutes)
            => op'.ret = op.arg]_vars

\* A get with one spelling returned the response that a set with the other spelling
\* had just put in place of the earlier one
C17_Witness ==
    /\ op.name = "get"
    /\ nops = 2
    /\ op.query = Respelled
    /\ op.ret = <<[query |-> Spelled, results |-> <<>>]>>
    /\ Cardinality(EntriesFor(cache, WordsOf(Spelled))) = 1
    /\ Len(cache) = 50

\* C19: every get returns the same whether or not clearExpired has run between the
\* calls.
C19_SweepChangesNoGet ==
    [][GetStep => op'.ret = CacheGet(unswept, now, op'.query).ret]_vars

\* The response was returned by a provider call made for a query with the key of
\* query (a SearchResponse names the query it answers)
AnswersQuery(resp, query) == SameQuery(resp.query, query)

\* C18: when runs that share the cache interleave at their awaits, every result set
\* a get returns to a run was returned by a provider call for a query with the same
\* normalized key, and every entry holds the answer to a query with its key: two
\* runs that miss on one key at the same time cost one more provider call, no more.
C18_SharedCacheServesTheRightQuery ==
    /\ \A s \in DOMAIN steps :
          outcome[s].kind = "hit" => AnswersQuery(outcome[s].resp, steps[s].query)
    /\ other.got # <<>> => AnswersQuery(other.got[1].resp, other.got[1].query)
    /\ \A j \in 1..Len(cache) : AnswersQuery(cache[j].results, cache[j].query)
    /\ \A s \in DOMAIN steps :
          steps[s].results # <<>> => AnswersQuery(steps[s].results[1], steps[s].query)

\* Both runs missed on the key of the last sub-query at the same time: the run
\* observed has its provider's answer, the cache holds the one the other run stored
\* after it
C18_Witness ==
    /\ pc = "done"
    /\ other.inflight = {}
    /\ outcome[3].kind = "resolved"
    /\ steps[3].results = <<[query |-> steps[3].query, results |-> Found]>>
    /\ \E j \in 1..Len(cache) :
          /\ SameQuery(cache[j].query, steps[3].query)
          /\ cache[j].results = [query |-> OtherPlan[4], results |-> <<>>]

\* The snapshots this step hands to onProgress
Delivered == {j \in 1..Len(emitted') : j > Len(emitted)}

\* The steps that have left pending, and the steps whose batch callback has been
\* called, after this step
LeftPending == {s \in DOMAIN steps' : steps'[s].status # "pending"}
CalledBack == {s \in DOMAIN steps' : call'[s] # "none" \/ outcome'[s].kind # "none"}

\* C21 as claimed: in every snapshot handed to onProgress, currentStep is the number
\* of steps whose status is no longer pending.
C21_Original ==
    [][\A j \in Delivered : emitted'[j].currentStep = Cardinality(LeftPending)]_vars

\* C21 as amended: in every snapshot handed to onProgress, currentStep is the number
\* of steps whose batch callback has been called so far; it is never more than the
\* number of steps no longer pending, and it is less in the snapshot that opens a
\* batch, whose steps are searching before any of their callbacks is called.
C21_CurrentStepCountsCallbacks ==
    [][\A j \in Delivered :
          /\ emitted'[j].currentStep = Cardinality(CalledBack)
          /\ emitted'[j].currentStep <= Cardinality(LeftPending)
          /\ (pc = "batch" /\ steps' # <<>>) =>
                emitted'[j].currentStep < Cardinality(LeftPending)]_vars

\* The snapshot that opens the second batch is the last one delivered: it says 3
\* while the fourth step is searching already
C21_Witness ==
    /\ pc = "dispatch"
    /\ i = 3
    /\ k = 0
    /\ emitted[Len(emitted)].currentStep = 3
    /\ StatusOf(3) = "searching"

\* C22: whatever a consumer reads from a snapshot it retained (status, currentStep,
\* finalReport, each step's status, results and error) stays as it was when the
\* snapshot was delivered, however the run continues.
C22_SnapshotsNeverChange ==
    [][\A j \in 1..Len(emitted) : Reads(j)' = Reads(j)]_vars

\* The steps that settle in this step, and the number of snapshots delivered while
\* researching so far
Settling == {s \in DOMAIN steps : StatusOf(s) \notin Settled /\ steps'[s].status \in Settled}
Researching == {j \in 1..Len(emitted) : EmittedStatus[j] = "researching"}

\* ceil(n / 3)
Batches(n) == (n + 2) \div 3

\* C23: while researching, progress is emitted once at the start of each batch, with
\* all steps of the batch searching and none of them settled, and once with each
\* step that becomes completed or failed, the step's new status in place; between
\* the first researching snapshot and the terminal phase a run with n steps makes
\* ceil(n / 3) + n emissions.
C23_EmissionsWhileResearching ==
    /\ [][pc = "batch" =>
            /\ Cardinality(Delivered) = 1
            /\ \A s \in Batch(i) : steps'[s].status = "searching"
            /\ \A s \in DOMAIN steps \ Batch(i) : steps'[s].status = StatusOf(s)]_vars
    /\ [][(pc = "dispatch" \/ pc = "await") =>
            /\ Cardinality(Delivered) = Cardinality(Settling)
            /\ Cardinality(Settling) <= 1
            /\ \A j \in Delivered : emitted'[j].status = "researching"]_vars
    /\ [](pc \in {"decide", "synthesize", "done"} =>
            Cardinality(Researching) = 1 + Batches(N) + N)

\* A run has ended whose steps settled in every way: a cache hit, a timeout, a throw
\* and an answer; its six emissions follow the first researching snapshot
C23_Witness ==
    /\ pc = "done"
    /\ N = 4
    /\ Cardinality(Researching) = 7
    /\ outcome[0].kind = "hit"
    /\ outcome[1].kind = "hit"
    /\ outcome[2].kind = "timeout"
    /\ outcome[3].kind = "hit"

\* C24: the value the call resolves with has the status, currentStep, totalSteps,
\* steps and finalReport of the last value delivered to onProgress, and that last
\* value has status completed or failed.
C24_ReturnsLastSnapshot ==
    pc = "done" =>
        /\ Reads(Len(emitted)) = Returned
        /\ emitted[Len(emitted)].status \in Terminal
        /\ emitted[Len(emitted)].totalSteps = Cardinality(DOMAIN steps)

\* A run returned completed with a report, after a step failed for want of results
C24_Witness ==
    /\ pc = "done"
    /\ Returned.status = "completed"
    /\ Returned.finalReport # <<>>
    /\ Returned.currentStep = 4
    /\ Returned.steps[1].error = <<"No results found">>

\* generateResearchQueries has returned; its topic and the queries it returned
Planned == fn.name = "generateResearchQueries" /\ fn.ret # <<>>
PlanTopic == fn.args[1]
PlanQueries == fn.ret[1]

\* C25: generateResearchQueries returns between 1 and 8 queries, the first of them
\* the trimmed topic.
C25_OneToEightTrimmedTopicFirst ==
    Planned =>
        /\ Len(PlanQueries) >= 1
        /\ Len(PlanQueries) <= 8
        /\ PlanQueries[1] = trim(PlanTopic)

\* The queries returned hold every query the templates ts make of the topic; they
\* hold none of them
Carries(ts) ==
    \A j \in 1..Len(ts) : \E m \in 2..Len(PlanQueries) :
        PlanQueries[m] = PlanTopic \o Suffix(ts[j])
Lacks(ts) ==
    \A j \in 1..Len(ts) : \A m \in 1..Len(PlanQueries) :
        PlanQueries[m] # PlanTopic \o Suffix(ts[j])

\* The classes in their order of precedence: the test and the templates of each
Classes ==
    << [matches |-> isPersonQuery(PlanTopic), templates |-> personTemplates],
       [matches |-> isProductQuery(PlanTopic), templates |-> productTemplates],
       [matches |-> isComparison(PlanTopic), templates |-> comparisonTemplates],
       [matches |-> isHowTo(PlanTopic), templates |-> howToTemplates],
       [matches |-> TRUE, templates |-> generalTemplates] >>

\* C26: a topic gets the templates of the first class it matches in the order
\* person, product, comparison, how-to, general, and of no other class; a topic that
\* matches none of the first four gets the general templates, a 'comprehensive
\* overview' and a 'latest developments <year>' query among them.
C26_OneClassByPrecedence ==
    Planned =>
        LET cs == Classes IN
        /\ \A c \in 1..5 :
              (cs[c].matches /\ \A b \in 1..(c - 1) : ~cs[b].matches) =>
                 /\ Carries(cs[c].templates)
                 /\ \A b \in 1..5 \ {c} : Lacks(cs[b].templates)
        /\ (\A b \in 1..4 : ~cs[b].matches) =>
              \E m, n \in 2..Len(PlanQueries) :
                 /\ PlanQueries[m] = PlanTopic \o <<" ", "comprehensive", " ", "overview">>
                 /\ PlanQueries[n] =
                       PlanTopic \o <<" ", "latest", " ", "developments", " ", Year>>

\* A topic with a role noun, a product word and a comparison word was planned as a
\* person topic
C26_Witness ==
    /\ Planned
    /\ PlanTopic = <<"review", " ", "VS", " ", "CEO">>
    /\ PlanQueries[2] = PlanTopic \o <<" ", "biography", " ", "and", " ", "background">>
    /\ Len(PlanQueries) = 4

\* The topic holds one of the recency words, in capitals or not
Recent == \E j \in 1..Len(PlanTopic) : LowerSym(PlanTopic[j]) \in {"latest", "recent", "current"}

\* The list made of the topic, the queries the templates ts make of it in their
\* order, and the query for the current year if the topic is recent
Assembled(ts) ==
    <<PlanTopic>> \o [j \in 1..Len(ts) |-> PlanTopic \o Suffix(ts[j])]
                  \o (IF Recent THEN <<PlanTopic \o <<" ", Year>>>> ELSE <<>>)

\* C27: the list returned is the topic, then the 3 to 5 templates of one class in
\* their fixed order, then '<topic> <current year>' last if and only if the topic
\* holds 'latest', 'recent' or 'current' in any capitalisation; it has at most 8
\* entries and nothing of this order is lost to the cut.
C27_TopicTemplatesYear ==
    Planned =>
        /\ Len(PlanQueries) <= 8
        /\ \E ts \in {personTemplates, productTemplates, comparisonTemplates,
                      howToTemplates, generalTemplates} :
              /\ Len(ts) >= 3
              /\ Len(ts) <= 5
              /\ PlanQueries = Assembled(ts)

\* A recent topic of the general class: seven queries, the one for the year last
C27_Witness ==
    /\ Planned
    /\ PlanTopic = <<"Latest", " ", "Rust">>
    /\ Len(PlanQueries) = 7
    /\ PlanQueries[6] = PlanTopic \o <<" ", "real", " ", "world", " ", "examples", " ",
                                       "and", " ", "use", " ", "cases">>
    /\ PlanQueries[7] = <<"Latest", " ", "Rust", " ", Year>>

\* The named function, called on its own, has returned
Called(name) == fn.name = name /\ fn.ret # <<>>

\* A URL without its query string and fragment, in lower case
Stem(url) ==
    LET marks == {j \in 1..Len(url) : url[j] \in {"?", "#"}}
        end == IF marks = {} THEN Len(url)
               ELSE (CHOOSE j \in marks : \A m \in marks : j <= m) - 1
    IN  [j \in 1..end |-> LowerSym(url[j])]

\* The entries of rs that no earlier entry shares its stem with
Firsts(rs) == {j \in 1..Len(rs) : \A m \in 1..(j - 1) : Stem(rs[m].url) # Stem(rs[j].url)}

\* The p-th smallest member of a set of numbers
Nth(set, p) == CHOOSE j \in set : Cardinality({m \in set : m < j}) = p - 1

\* C28: deduplicateResults returns a subsequence of its input, in the input's order,
\* in which no two entries have the same normalized URL (query string and fragment
\* removed, lowercased) and each entry is the first of the input with its normalized
\* URL; of https://x.com/a?ref=1 and https://x.com/a#section the first stays.
C28_KeepsFirstOfEachUrl ==
    Called("deduplicateResults") =>
        LET rs == fn.args[1]
            unique == fn.ret[1]
            firsts == Firsts(rs)
        IN  /\ Len(unique) = Cardinality(firsts)
            /\ \A p \in 1..Len(unique) : unique[p] = rs[Nth(firsts, p)]
            /\ \A p, r \in 1..Len(unique) :
                  Stem(unique[p].url) = Stem(unique[r].url) => p = r

\* Of three results for https://x.com/a, told apart by query string, fragment and
\* capitals, the first was kept, behind a result for another URL
C28_Witness ==
    /\ Called("deduplicateResults")
    /\ Len(fn.args[1]) = 3
    /\ fn.args[1][1].url = <<"https://", "x.com", "/", "b", "#", "top", "?", "q">>
    /\ fn.args[1][2].url = <<"https://", "x.com", "/", "a", "#", "section">>
    /\ fn.args[1][3].url = <<"HTTPS://", "X.COM", "/", "A">>
    /\ fn.ret[1] = <<fn.args[1][1], fn.args[1][2]>>

\* The host of a URL: its labels between the scheme and the first "/"
Host(url) ==
    LET slashes == {j \in 2..Len(url) : url[j] = "/"}
        end == IF slashes = {} THEN Len(url)
               ELSE (CHOOSE j \in slashes : \A m \in slashes : j <= m) - 1
    IN  SubSeq(url, 2, end)

Allowlist == {"wikipedia.org", "github.com", ".edu", ".gov", "stackoverflow.com"}

\* The host is on the allowlist: it is one of its domains, or ends with one
OnAllowlist(url) == Host(url) # <<>> /\ Host(url)[Len(Host(url))] \in Allowlist

\* The topic's tokens of three characters or more that the text holds, in lower case
Hits(topic, text) ==
    LET tokens == splitWs(toLowerCase(topic))
    IN  {j \in 1..Len(tokens) :
            length(tokens[j]) >= 3 /\ includes(toLowerCase(text), tokens[j])}

\* C29: the score rankResults assigns is not negative and is 3 for each topic token
\* of length >= 3 in the lowercased title, plus 1 for each in the lowercased
\* snippet, plus 1 for a snippet of more than 100 characters, plus 2 if and only if
\* the host of the URL matches an entry of the trusted-domain allowlist.
C29_ScoreOfAResult ==
    Called("rankResults") =>
        \A p \in 1..Len(fn.ret[1]) :
            LET r == fn.ret[1][p] IN
            /\ r.relevanceScore >= 0
            /\ r.relevanceScore =
                  3 * Cardinality(Hits(fn.args[2], r.title))
                  + Cardinality(Hits(fn.args[2], r.snippet))
                  + (IF length(r.snippet) > 100 THEN 1 ELSE 0)
                  + (IF OnAllowlist(r.url) THEN 2 ELSE 0)

\* Result a goes before result b: its score is higher, or the scores are equal and
\* it stands earlier among the deduplicated results
GoesBefore(a, b) == a.score > b.score \/ (a.score = b.score /\ a.at < b.at)

\* C30: the results handed to the report are the deduplicated results in descending
\* order of score, results of equal score in their order after deduplication, cut
\* to the first 20: no result outside the first 20 of this order is among them.
C30_StableTopTwenty ==
    Called("topResults") =>
        LET unique == deduplicateResults(fn.args[1])
            top == fn.ret[1]
            \* where each result of the report stands among the deduplicated ones
            at == [p \in 1..Len(top) |->
                      CHOOSE j \in 1..Len(unique) : unique[j].url = top[p].url]
            ranked == [j \in 1..Len(unique) |->
                          [score |-> Score(unique[j], fn.args[2]), at |-> j]]
            chosen == {at[p] : p \in 1..Len(top)}
        IN  /\ Len(top) = IF Len(unique) < 20 THEN Len(unique) ELSE 20
            /\ \A p \in 1..Len(top) :
                  /\ top[p].title = unique[at[p]].title
                  /\ top[p].snippet = unique[at[p]].snippet
                  /\ top[p].relevanceScore = ranked[at[p]].score
            /\ \A p, r \in 1..Len(top) : p < r => GoesBefore(ranked[at[p]], ranked[at[r]])
            /\ \A j \in 1..Len(unique) : j \notin chosen =>
                  \A p \in 1..Len(top) : GoesBefore(ranked[at[p]], ranked[j])

\* Of 22 results, all with their own URL, every second names the topic in its title
\* and every fourth in its snippet too; the report gets 20: results 4 to 20, then 2
\* to 22, then the first of the rest, and the last two of the rest are left out
C30_Witness ==
    /\ Called("topResults")
    /\ Len(fn.args[1]) = 22
    /\ Len(deduplicateResults(fn.args[1])) = 22
    /\ Len(fn.ret[1]) = 20
    /\ fn.ret[1][1].title = <<"Rust", " ", "4">>
    /\ fn.ret[1][5].title = <<"Rust", " ", "20">>
    /\ fn.ret[1][6].title = <<"Rust", " ", "2">>
    /\ fn.ret[1][11].title = <<"Rust", " ", "22">>
    /\ fn.ret[1][6].relevanceScore < fn.ret[1][5].relevanceScore
    /\ fn.ret[1][11].relevanceScore = fn.ret[1][6].relevanceScore
    /\ fn.ret[1][12].relevanceScore < fn.ret[1][11].relevanceScore
    /\ fn.ret[1][12].url = fn.args[1][1].url
    /\ \A p \in 1..20 : fn.ret[1][p].url \notin {fn.args[1][19].url, fn.args[1][21].url}

\* The steps whose provider call resolves in this step, before the timeout
Resolving == {s \in DOMAIN steps : outcome[s].kind = "none" /\ outcome'[s].kind = "resolved"}

\* C31: an empty result set the provider returns without error is written to the
\* cache although the step is marked failed; a step for that query executed within
\* the TTL makes no provider call and is marked failed with 'No results found'.
C31_EmptyResultsAreCached ==
    /\ [][\A s \in Resolving : outcome'[s].resp.results = <<>> =>
             /\ steps'[s].status = "failed"
             /\ \E j \in 1..Len(cache') :
                   /\ cache'[j].query = normalizeQuery(steps[s].query)
                   /\ cache'[j].results = outcome'[s].resp
                   /\ cache'[j].timestamp = now]_vars
    /\ [][(pc = "dispatch" /\ k' = k + 1) =>
             \A j \in Unexpired(steps[i + k].query) :
                cache[j].results.results = <<>> =>
                   /\ call'[i + k] = "none"
                   /\ steps'[i + k].status = "failed"
                   /\ steps'[i + k].error = <<"No results found">>]_vars

\* The second step found the empty answer an earlier run had stored and failed
\* without a provider call; the third step's empty answer is in the cache now
C31_Witness ==
    /\ Started
    /\ outcome[1].kind = "hit"
    /\ outcome[1].resp.results = <<>>
    /\ call[1] = "none"
    /\ steps[1].error = <<"No results found">>
    /\ outcome[2].kind = "resolved"
    /\ StatusOf(2) = "failed"
    /\ \E j \in 1..Len(cache) :
          /\ cache[j].query = normalizeQuery(steps[2].query)
          /\ cache[j].results.results = <<>>

\* The steps whose provider call settles in this step after the timeout failed them
SettlingLate ==
    {s \in DOMAIN steps :
        outcome[s].kind = "timeout" /\ call[s] = "pending" /\ call'[s] = "settled"}

\* C32: a provider call that resolves or rejects after the timeout failed its step
\* changes nothing: the step's status, error and results stay as the timeout left
\* them, no progress is emitted, nothing is written to the cache.
C32_LateResponseChangesNothing ==
    [][SettlingLate # {} =>
          /\ steps' = steps
          /\ \A s \in SettlingLate :
                /\ StatusOf(s) = "failed"
                /\ steps[s].error = <<"Search timeout">>
                /\ steps[s].results = <<>>
          /\ emitted' = emitted
          /\ progress' = progress
          /\ cache' = cache]_vars

\* The first step timed out and its provider call has answered since, while the
\* batch is still awaited; the cache holds nothing for its query
C32_Witness ==
    /\ pc = "await"
    /\ outcome[0].kind = "timeout"
    /\ call[0] = "settled"
    /\ steps[0].error = <<"Search timeout">>
    /\ Held(steps[0].query) = {}

\* The entries of cache c
Entries(c) == {c[j] : j \in 1..Len(c)}

\* Step s has ended in one of these ways
EndedAs(s, kinds) == s \in DOMAIN outcome /\ outcome[s].kind \in kinds

\* The cache holds an entry for the query of step s, which has expired, and the
\* callback of step s is the next to run
AboutToLookUpExpired(s) ==
    /\ pc = "dispatch"
    /\ s \in DOMAIN steps
    /\ i + k = s
    /\ Held(steps[s].query) # {}
    /\ Unexpired(steps[s].query) = {}

C34_CurrentStepClimbsToTotal ==
    /\ \A j \in 1..(Len(emitted) - 1) : emitted[j].currentStep <= emitted[j + 1].currentStep
    /\ \A j \in 1..Len(emitted) :
          /\ emitted[j].currentStep >= 0
          /\ emitted[j].currentStep <= emitted[j].totalSteps
          /\ emitted[j].totalSteps = Cardinality(DOMAIN steps)
          /\ emitted[j].totalSteps = Len(PlanOf[mainQuery])
          /\ emitted[j].status \in Terminal => emitted[j].currentStep = emitted[j].totalSteps

\* A run has ended whose snapshots showed currentStep 0, 1, 2, 3 and 4: the first
\* two steps were served from the cache as their callbacks ran
C34_Witness ==
    /\ pc = "done"
    /\ emitted[Len(emitted)].currentStep = 4
    /\ {emitted[j].currentStep : j \in 1..Len(emitted)} = 0..4

\* C35: a get that hits an unexpired entry changes neither the entry's insertion
\* timestamp nor the order in which entries are evicted: it leaves every entry, its
\* timestamp and its place as they were, so that the entry still expires 10 minutes
\* after its last set and the next set evicts the entry at the head of the
\* insertion order, read or not.
C35_ReadsDoNotRefresh ==
    /\ [][(GetStep /\ op'.ret # <<>>) => cache' = cache]_vars
    /\ [][(GetStep /\ op.name = "get" /\ op.ret # <<>> /\ SameQuery(op.query, op'.query)
              /\ now - written[WordsOf(op.query)][1].at >= TenMinutes)
            => op'.ret = <<>>]_vars
    /\ [][(SetStep /\ op.name = "get" /\ op.ret # <<>>) =>
             \A e \in Entries(cache) \ Entries(cache') :
                e.query # normalizeQuery(op'.query) => e = cache[1]]_vars

\* The oldest of 50 entries was read five minutes after it was stored, as the second
\* call on the cache: it is still the first in line, with the timestamp of its set
C35_Witness ==
    /\ op.name = "get"
    /\ op.ret = <<FoundFor(Spelled)>>
    /\ op.at = SWEEP_INTERVAL
    /\ nops = 2
    /\ Len(cache) = 50
    /\ cache = unswept
    /\ SameQuery(cache[1].query, op.query)
    /\ cache[1].timestamp = 0

\* A batch follows the one being awaited
MoreBatches == \E s \in DOMAIN steps : StatusOf(s) = "pending"

\* C36: between the settling of a batch and the start of the next the delay is
\* waited, for every pair of consecutive batches; after the last batch no delay is
\* waited: the run goes from the settled batch straight to its decision.
C36_DelayBetweenBatchesOnly ==
    /\ [][(pc = "await" /\ pc' # "await") =>
             /\ \A s \in DOMAIN steps : StatusOf(s) \in {"pending"} \cup Settled
             /\ MoreBatches => pc' = "delay"
             /\ ~MoreBatches => pc' = "decide"]_vars
    /\ [][(pc' = "batch" /\ pc # "batch") => pc \in {"idle", "delay"}]_vars
    /\ [][(pc = "delay" /\ pc' # "delay") => (pc' = "batch" /\ MoreBatches)]_vars
    /\ [](pc = "delay" => MoreBatches)

\* The first batch has settled and the delay before the second is being waited
C36_Witness ==
    /\ pc = "delay"
    /\ \A s \in 0..2 : StatusOf(s) \in Settled
    /\ StatusOf(3) = "pending"
    /\ call[0] = "pending"

\* C37: in every snapshot handed to onProgress finalReport is present only if the
\* status is completed or failed, and it is present in every snapshot whose status
\* is completed or failed.
C37_ReportIffTerminal ==
    \A j \in 1..Len(emitted) :
        emitted[j].finalReport # <<>> <=> emitted[j].status \in Terminal

\* A failed run: its last snapshot alone carries a report, the fixed one
C37_Witness ==
    /\ pc = "done"
    /\ emitted[Len(emitted)].status = "failed"
    /\ emitted[Len(emitted)].finalReport = <<FailedReport>>
    /\ \A j \in 1..(Len(emitted) - 1) : emitted[j].finalReport = <<>>
    /\ Len(emitted) = 9

\* The completed steps, and what the provider or the cache returned for one
Completed == {s \in DOMAIN steps : StatusOf(s) = "completed"}
RawResults(s) == steps[s].results[1].results

\* The number of results returned for the steps of a set, all told
RECURSIVE RawHits(_)
RawHits(set) ==
    IF set = {} THEN 0
    ELSE LET s == CHOOSE s \in set : TRUE
         IN  Len(RawResults(s)) + RawHits(set \ {s})

\* C38: the report of a completed run states the number of completed steps, the
\* total of their raw hit counts and the number k <= 20 of results kept; its key
\* findings and its source list hold those k results, numbered 1 to k in rank
\* order; its breakdown lists the completed steps and no failed one, each with its
\* raw hit count.
C38_ReportOfACompletedRun ==
    (pc = "done" /\ progress.status = "completed") =>
        LET report == progress.finalReport[1]
            kept == report.findings
            rows == report.breakdown
        IN  /\ report.angles = Cardinality(Completed)
            /\ report.totalSources = RawHits(Completed)
            /\ Len(kept) <= 20
            /\ Len(report.sources) = Len(kept)
            /\ \A p \in 1..Len(kept) : report.sources[p] = kept[p].url
            /\ \A p, r \in 1..Len(kept) :
                  /\ p < r => kept[p].relevanceScore >= kept[r].relevanceScore
                  /\ Stem(kept[p].url) = Stem(kept[r].url) => p = r
            /\ \A p \in 1..Len(kept) : \E s \in Completed : \E m \in 1..Len(RawResults(s)) :
                  /\ RawResults(s)[m].url = kept[p].url
                  /\ RawResults(s)[m].title = kept[p].title
            /\ Len(kept) < 20 =>
                  \A s \in Completed : \A m \in 1..Len(RawResults(s)) :
                     \E p \in 1..Len(kept) : Stem(kept[p].url) = Stem(RawResults(s)[m].url)
            /\ Len(rows) = Cardinality(Completed)
            /\ \A p \in 1..Len(rows) :
                  /\ rows[p].query = steps[Nth(Completed, p)].query
                  /\ rows[p].resultCount = Len(RawResults(Nth(Completed, p)))

\* The first and fourth step completed from the cache, the second failed on a
\* cached empty answer, the third timed out; the report counts 2 steps and 6 results
\* found, keeps 2 of them and lists the first and fourth step
C38_Witness ==
    /\ pc = "done"
    /\ progress.status = "completed"
    /\ Completed = {0, 3}
    /\ outcome[3].kind = "hit"
    /\ steps[1].results # <<>>
    /\ outcome[2].kind = "timeout"
    /\ progress.finalReport[1].angles = 2
    /\ progress.finalReport[1].totalSources = 6
    /\ Len(progress.finalReport[1].findings) = 2
    /\ Len(progress.finalReport[1].breakdown) = 2

====
